---- MODULE Spec2Model ----
(***************************************************************************)
(* Mesh region classifier (make_selections) of smooth-layer-search.        *)
(*                                                                         *)
(* Three variants of make_selections exist, one per threshold policy:      *)
(*   "coverage"  cervix_inflation_EX_V2_original/make_selections.py        *)
(*   "excluded"  cervix_inflation_EX_V2_original_dual_deformed_fine/       *)
(*               make_selections_first_new.py                              *)
(*   "extremal"  test_single_job/make_selections.py                        *)
(*                                                                         *)
(* Numbers.  Coordinates are fixed point: the stored integer n is the      *)
(* coordinate n/2, so 20 is 10.0 and 11 is 5.5.  Every quantity the code   *)
(* derives from coordinates (a mean of three, a product with 0.5 or 0.6)   *)
(* is kept multiplied by Q = 30, which makes all of them integers and      *)
(* leaves every comparison of the code unchanged.  Winding numbers are in  *)
(* tenths (5 is 0.5).  Indices are 1-based.                                *)
(*                                                                         *)
(* Library calls.  igl.boundary_facets, igl.facet_components and           *)
(* igl.winding_number are collaborators of the program: their results for  *)
(* the given pair of input files are inputs of the model (f, c, w1).       *)
(***************************************************************************)
EXTENDS Integers, Sequences, FiniteSets, TLC

VARIABLES
    policy,               \* which variant of make_selections runs
    mesh_file,            \* points of the volumetric mesh file, as stored on disk
    cx_file,              \* points of the reference surface file, as stored on disk
    mesh_has_tetra,       \* the volumetric mesh file holds a "tetra" cell block
    cx_has_triangle,      \* the reference surface file holds a "triangle" cell block
    c,                    \* igl.facet_components(f): component id per boundary triangle
    w1,                   \* igl.winding_number(...): winding number per tetrahedron
    v,                    \* mm.points in memory (<<>> before the mesh is read)
    pts_ori_CX,           \* mesh_ori_CX.points in memory (<<>> before it is read)
    dirichlet_selection,  \* boolean mask per boundary triangle (<<>> before computed)
    files,                \* the two label files in the working directory
    pc,                   \* position inside make_selections
    error,                \* exception that ended the call, "none" otherwise
    run,                  \* number of the invocation in progress (1 or 2)
    first_files,          \* the label files as the first invocation left them
    extract,              \* scripts/single_extract.py: extract_optimization_data
    submit,               \* scripts/submit_grid_jobs.py: main
    grid,                 \* scripts/generate_grid_configs.py: main
    cleanup               \* scripts/vtu_cleanup.py: cleanup_job_folder

vars == <<policy, mesh_file, cx_file, mesh_has_tetra, cx_has_triangle, c, w1, v,
          pts_ori_CX, dirichlet_selection, files, pc, error, run, first_files,
          extract, submit, grid, cleanup>>

(* the state of make_selections and of its files *)
classifier == <<policy, mesh_file, cx_file, mesh_has_tetra, cx_has_triangle, c, w1, v,
                pts_ori_CX, dirichlet_selection, files, pc, error, run, first_files>>

(* a script that is not running *)
NotRunning == [pc |-> "not_running"]

inputs == <<policy, mesh_file, cx_file, mesh_has_tetra, cx_has_triangle, c, w1>>

----------------------------------------------------------------------------
(* Bounds of the model *)

NumFacets == 2
NumTets == 2

(* boundary triangle k of the modelled meshes joins points k, k+1, k+2 *)
NumPoints == NumFacets + 2

Policies == {"coverage", "excluded", "extremal"}

(* component ids igl.facet_components may return *)
ComponentIds == {0, 1, 2}

(* winding numbers in tenths: outside, exactly one half, inside *)
WindingValues == {0, 5, 10}

----------------------------------------------------------------------------
(* Arithmetic helpers *)

Q == 2 * 3 * 5

Abs(x) == IF x < 0 THEN -x ELSE x

RECURSIVE MaxOf(_)
MaxOf(S) ==
    LET x == CHOOSE y \in S : TRUE
    IN  IF S = {x} THEN x
        ELSE LET m == MaxOf(S \ {x}) IN IF x > m THEN x ELSE m

RECURSIVE MinOf(_)
MinOf(S) ==
    LET x == CHOOSE y \in S : TRUE
    IN  IF S = {x} THEN x
        ELSE LET m == MinOf(S \ {x}) IN IF x < m THEN x ELSE m

(* np.where(mask)[0]: the indices at which the mask is true, ascending *)
RECURSIVE WherePrefix(_, _)
WherePrefix(mask, n) ==
    IF n = 0 THEN <<>>
    ELSE IF mask[n] THEN Append(WherePrefix(mask, n - 1), n)
         ELSE WherePrefix(mask, n - 1)

Where(mask) == WherePrefix(mask, Len(mask))

(* np.argmax / np.argmin: the first index holding the extreme value *)
ArgMax(pts, axis) ==
    LET m == MaxOf({pts[i][axis] : i \in DOMAIN pts})
    IN  MinOf({i \in DOMAIN pts : pts[i][axis] = m})

ArgMin(pts, axis) ==
    LET m == MinOf({pts[i][axis] : i \in DOMAIN pts})
    IN  MinOf({i \in DOMAIN pts : pts[i][axis] = m})

----------------------------------------------------------------------------
(* Geometry shared by the three variants *)

(* v *= 1000 *)
Rescale == 1000

(* ScalePoints with the rescale left out *)
ScalePointsNone(pts) == pts

ScalePoints(pts) == [i \in DOMAIN pts |-> <<pts[i][1] * Rescale, pts[i][2] * Rescale>>]

(* f = igl.boundary_facets(t): triangle k joins points k, k+1, k+2 *)
f == [k \in 1..NumFacets |-> <<k, k + 1, k + 2>>]

(* np.mean(v[f, :], axis=1), times Q *)
triangle_barycenters(pts) ==
    [k \in 1..NumFacets |->
        <<(Q \div 3) * (pts[f[k][1]][1] + pts[f[k][2]][1] + pts[f[k][3]][1]),
          (Q \div 3) * (pts[f[k][1]][2] + pts[f[k][2]][2] + pts[f[k][3]][2])>>]

ColMax(pts, axis) == MaxOf({pts[i][axis] : i \in DOMAIN pts})
ColMin(pts, axis) == MinOf({pts[i][axis] : i \in DOMAIN pts})

----------------------------------------------------------------------------
(* Coverage-percent policy: cervix_inflation_EX_V2_original/make_selections.py *)

(* coverage_boundary with coverage_percent left out of coverage_length *)
coverage_boundary_whole(cx) ==
    LET p1_ori_CX == cx[ArgMax(cx, 1)]
        max_x == p1_ori_CX[1]
        min_x_cx == ColMin(cx, 1)
        total_length_x == max_x - min_x_cx
        coverage_length == Q * total_length_x
    IN  Q * max_x - coverage_length

(* coverage_boundary = max_x - coverage_percent * total_length_x, times Q *)
coverage_boundary(cx) ==
    LET p1_ori_CX == cx[ArgMax(cx, 1)]
        max_x == p1_ori_CX[1]
        min_x_cx == ColMin(cx, 1)
        total_length_x == max_x - min_x_cx
        coverage_length == (Q \div 2) * total_length_x
    IN  Q * max_x - coverage_length

(* y_center = (max y + min y) / 2, times Q *)
y_center(cx) == (Q \div 2) * (ColMax(cx, 2) + ColMin(cx, 2))

(* y_tolerance = 0.6 * y_range, times Q *)
y_tolerance(cx) ==
    LET y_range == ColMax(cx, 2) - ColMin(cx, 2)
    IN  ((Q * 6) \div 10) * y_range

CoverageSelection(pts, cx) ==
    LET b == triangle_barycenters(pts)
        max_x == cx[ArgMax(cx, 1)][1]
    IN  [k \in 1..NumFacets |->
            /\ b[k][1] >= coverage_boundary(cx)
            /\ b[k][1] <= Q * max_x
            /\ Abs(b[k][2] - y_center(cx)) <= y_tolerance(cx)]

----------------------------------------------------------------------------
(* Excluded-extent policy:                                                  *)
(* cervix_inflation_EX_V2_original_dual_deformed_fine/make_selections_first_new.py *)

(* volumetric_without_cx with `v[:, 0] < cx_x_max` *)
volumetric_below_cx_max(pts, cx) == {i \in DOMAIN pts : pts[i][1] < ColMax(cx, 1)}

(* v[:, 0] < cx_x_min: the indices of the points kept *)
volumetric_without_cx(pts, cx) == {i \in DOMAIN pts : pts[i][1] < ColMin(cx, 1)}

(* x_max_without_cx is bound only inside `if len(volumetric_without_cx) > 0` *)
XMaxBound(pts, cx) == volumetric_without_cx(pts, cx) # {}

x_max_without_cx(pts, cx) ==
    MaxOf({pts[i][1] : i \in volumetric_without_cx(pts, cx)})

ExcludedSelection(pts, cx) ==
    LET b == triangle_barycenters(pts)
    IN  [k \in 1..NumFacets |-> b[k][1] > Q * x_max_without_cx(pts, cx)]

----------------------------------------------------------------------------
(* Extremal-line policy: test_single_job/make_selections.py *)

(* math.ceil of a coordinate held in halves *)
Ceil(n) == 2 * ((n + 1) \div 2)

(* A float quotient n/d as the pair <<n, d>>; d = 0 gives inf, -inf or nan *)
IsNaN(a) == a[1] = 0 /\ a[2] = 0
IsInf(a) == a[1] # 0 /\ a[2] = 0
Sign(x) == IF x > 0 THEN 1 ELSE IF x < 0 THEN -1 ELSE 0

(* a >= b on float quotients (false whenever either is nan) *)
QuotGe(a, b) ==
    IF IsNaN(a) \/ IsNaN(b) THEN FALSE
    ELSE IF IsInf(a) /\ IsInf(b) THEN Sign(a[1]) >= Sign(b[1])
    ELSE IF IsInf(a) THEN a[1] > 0
    ELSE IF IsInf(b) THEN b[1] < 0
    ELSE a[1] * Sign(a[2]) * Abs(b[2]) >= b[1] * Sign(b[2]) * Abs(a[2])

ExtremalSelection(pts, cx) ==
    LET b == triangle_barycenters(pts)
        p1_ori_CX == cx[ArgMax(cx, 1)]
        p2_ori_CX == cx[ArgMin(cx, 2)]
        p3_ori_CX == cx[ArgMax(cx, 2)]
        min_y == p2_ori_CX[2]
        x_at_min_y == p2_ori_CX[1]
        max_x == p1_ori_CX[1]
        y_at_max_x == p1_ori_CX[2]
        x_at_max_y == p3_ori_CX[1]
        x_range == max_x - x_at_max_y
        lower_x == Q * x_at_max_y + (Q \div 2) * x_range
        upper_x == Ceil(max_x)
        slope == <<max_x - x_at_min_y, y_at_max_x - min_y>>
    IN  [k \in 1..NumFacets |->
            /\ b[k][1] >= lower_x
            /\ b[k][1] <= Q * upper_x
            /\ QuotGe(<<b[k][1] - Q * x_at_min_y, b[k][2] - Q * min_y>>, slope)]

----------------------------------------------------------------------------
(* Label files *)

SurfaceName(p) == IF p = "extremal" THEN "multigrid_selection.txt"
                  ELSE "surface_selections.txt"
VolumeName == "volume_selections.txt"
FileNames == {"surface_selections.txt", "multigrid_selection.txt", VolumeName}

NoFile == [exists |-> FALSE, lines |-> <<>>]

(* the lines `for idx in idxs: i, j, k = f[idx]; write(f"{label} {i} {j} {k}")` *)
LabelLines(label, idxs) ==
    [n \in 1..Len(idxs) |-> <<label, f[idxs[n]][1], f[idxs[n]][2], f[idxs[n]][3]>>]

(* SurfaceLines with the Dirichlet loop moved in front of the inner loop *)
SurfaceLinesDirichletFirst(comp, sel) ==
    LET IsInner == [k \in 1..NumFacets |-> comp[k] = 1]
        IsDirichlet == [k \in 1..NumFacets |-> sel[k]]
        IsOuter == [k \in 1..NumFacets |-> comp[k] = 0 /\ ~sel[k]]
    IN  LabelLines(1, Where(IsDirichlet))
        \o LabelLines(2, Where(IsInner))
        \o LabelLines(3, Where(IsOuter))

(* the body of `with open(<surface file>, "w")`: three loops in this order *)
SurfaceLines(comp, sel) ==
    LET IsInner == [k \in 1..NumFacets |-> comp[k] = 1]
        IsDirichlet == [k \in 1..NumFacets |-> sel[k]]
        IsOuter == [k \in 1..NumFacets |-> comp[k] = 0 /\ ~sel[k]]
    IN  LabelLines(2, Where(IsInner))
        \o LabelLines(1, Where(IsDirichlet))
        \o LabelLines(3, Where(IsOuter))

(* volume_selections with `w1 >= 0.5` in place of `w1 > 0.5` *)
volume_selections_ge(w) == [n \in 1..NumTets |-> IF w[n] >= 5 THEN 1 ELSE 2]

(* volume_selections = ones * 2; volume_selections[w1 > 0.5] = 1 *)
volume_selections(w) == [n \in 1..NumTets |-> IF w[n] > 5 THEN 1 ELSE 2]

(* VolumeLines that writes a line only for the tetrahedra relabelled to 1 *)
VolumeLinesInsideOnly(w) ==
    LET IsInside == [n \in 1..NumTets |-> w[n] > 5]
        idxs == Where(IsInside)
    IN  [n \in 1..Len(idxs) |-> <<1>>]

(* f"{i}\n" for each entry *)
VolumeLines(w) == [n \in 1..NumTets |-> <<volume_selections(w)[n]>>]

(* WriteFile with open(name, "a"): the lines are added to what the file holds *)
AppendFile(fs, name, lines) ==
    [fs EXCEPT ![name] = [exists |-> TRUE, lines |-> fs[name].lines \o lines]]

(* open(name, "w") followed by the writes and the close *)
WriteFile(fs, name, lines) == [fs EXCEPT ![name] = [exists |-> TRUE, lines |-> lines]]

----------------------------------------------------------------------------
(* Inputs *)

PointArrays(vals, n) == [1..n -> vals]

InitOver(Ps, MeshVals, CXVals, Cs, Ws) ==
    /\ policy \in Ps
    /\ mesh_file \in PointArrays(MeshVals[policy], NumPoints)
    /\ cx_file \in PointArrays(CXVals[policy], 2)
    /\ c \in [1..NumFacets -> Cs]
    /\ w1 \in [1..NumTets -> IF policy = "extremal" THEN {0} ELSE Ws]
    /\ v = <<>>
    /\ pts_ori_CX = <<>>
    /\ dirichlet_selection = <<>>
    /\ files = [n \in FileNames |-> NoFile]
    /\ pc = "start"
    /\ error = "none"
    /\ run = 1
    /\ first_files = [n \in FileNames |-> NoFile]
    /\ extract = NotRunning
    /\ submit = NotRunning
    /\ grid = NotRunning
    /\ cleanup = NotRunning

(* mesh points as stored in the volumetric mesh file *)
MeshValues ==
    [p \in Policies |->
        CASE p = "coverage" -> {<<8, 10>>, <<12, 10>>}
          [] p = "excluded" -> {<<0, 0>>, <<2, 0>>}
          [] p = "extremal" -> {<<4, 0>>, <<4, 2>>}]

(* points of the reference surface file *)
CXValues ==
    [p \in Policies |->
        CASE p = "coverage" -> {<<0, 0>>, <<20, 20>>}
          [] p = "excluded" -> {<<1000, 0>>, <<3000, 0>>}
          [] p = "extremal" -> {<<4000, 1000>>, <<2000, 0>>}]

(* both input files hold the cell blocks make_selections reads *)
WellFormed == mesh_has_tetra = TRUE /\ cx_has_triangle = TRUE

Init ==
    /\ InitOver(Policies, MeshValues, CXValues, ComponentIds, WindingValues)
    /\ WellFormed

----------------------------------------------------------------------------
(* make_selections, step by step *)

(* mm = meshio.read(...); v = mm.points; [v *= 1000]; t, f, c, barycenters *)
(* t = mm.cells_dict["tetra"] raises KeyError when the block is missing *)
LoadMesh ==
    /\ pc = "start"
    /\ v' = IF policy = "coverage" THEN mesh_file ELSE ScalePoints(mesh_file)
    /\ IF mesh_has_tetra
       THEN pc' = "mesh_loaded" /\ UNCHANGED error
       ELSE pc' = "failed" /\ error' = "KeyError"
    /\ UNCHANGED <<extract, submit, grid, cleanup, inputs, pts_ori_CX, dirichlet_selection, files, run, first_files>>

(* mesh_ori_CX = meshio.read(CX_fname); pts_ori_CX = mesh_ori_CX.points *)
LoadCX ==
    /\ pc = "mesh_loaded"
    /\ pts_ori_CX' = cx_file
    /\ pc' = "cx_loaded"
    /\ UNCHANGED <<extract, submit, grid, cleanup, inputs, v, dirichlet_selection, files, error, run, first_files>>

SelectCoverage ==
    /\ pc = "cx_loaded"
    /\ policy = "coverage"
    /\ dirichlet_selection' = CoverageSelection(v, pts_ori_CX)
    /\ pc' = "selected"
    /\ UNCHANGED <<extract, submit, grid, cleanup, inputs, v, pts_ori_CX, files, error, run, first_files>>

SelectExcluded ==
    /\ pc = "cx_loaded"
    /\ policy = "excluded"
    /\ IF XMaxBound(v, pts_ori_CX)
       THEN /\ dirichlet_selection' = ExcludedSelection(v, pts_ori_CX)
            /\ pc' = "selected"
            /\ UNCHANGED error
       ELSE /\ error' = "UnboundLocalError"
            /\ pc' = "failed"
            /\ UNCHANGED dirichlet_selection
    /\ UNCHANGED <<extract, submit, grid, cleanup, inputs, v, pts_ori_CX, files, run, first_files>>

SelectExtremal ==
    /\ pc = "cx_loaded"
    /\ policy = "extremal"
    /\ dirichlet_selection' = ExtremalSelection(v, pts_ori_CX)
    /\ pc' = "selected"
    /\ UNCHANGED <<extract, submit, grid, cleanup, inputs, v, pts_ori_CX, files, error, run, first_files>>

WriteSurface ==
    /\ pc = "selected"
    /\ files' = WriteFile(files, SurfaceName(policy), SurfaceLines(c, dirichlet_selection))
    /\ pc' = "surface_written"
    /\ UNCHANGED <<extract, submit, grid, cleanup, inputs, v, pts_ori_CX, dirichlet_selection, error, run, first_files>>

(* WriteVolume that returns without opening volume_selections.txt *)
WriteVolumeSkipped ==
    /\ pc = "surface_written"
    /\ policy # "extremal"
    /\ pc' = "done"
    /\ UNCHANGED <<extract, submit, grid, cleanup, inputs, v, pts_ori_CX, dirichlet_selection, files, error, run,
                   first_files>>

(* CX = meshio.read(CX_fname); with open("volume_selections.txt", "w") ... *)
(* CX.cells_dict["triangle"] is read inside the with block, after the open *)
WriteVolume ==
    /\ pc = "surface_written"
    /\ policy # "extremal"
    /\ IF cx_has_triangle
       THEN /\ files' = WriteFile(files, VolumeName, VolumeLines(w1))
            /\ pc' = "done"
            /\ UNCHANGED error
       ELSE /\ files' = WriteFile(files, VolumeName, <<>>)
            /\ pc' = "failed"
            /\ error' = "KeyError"
    /\ UNCHANGED <<extract, submit, grid, cleanup, inputs, v, pts_ori_CX, dirichlet_selection, run, first_files>>

(* return np.unique(f[c == 1].flatten()).shape[0] *)
ReturnInnerCount ==
    /\ pc = "surface_written"
    /\ policy = "extremal"
    /\ pc' = "done"
    /\ UNCHANGED <<extract, submit, grid, cleanup, inputs, v, pts_ori_CX, dirichlet_selection, files, error, run,
                   first_files>>

(* a second invocation on the same files, in the same working directory *)
RunAgain ==
    /\ pc \in {"done", "failed"}
    /\ run = 1
    /\ run' = 2
    /\ first_files' = files
    /\ v' = <<>>
    /\ pts_ori_CX' = <<>>
    /\ dirichlet_selection' = <<>>
    /\ error' = "none"
    /\ pc' = "start"
    /\ UNCHANGED <<extract, submit, grid, cleanup, inputs, files>>

Call ==
    \/ LoadMesh
    \/ LoadCX
    \/ SelectCoverage
    \/ SelectExcluded
    \/ SelectExtremal
    \/ WriteSurface
    \/ WriteVolume
    \/ ReturnInnerCount

Next == Call

Spec == Init /\ [][Next]_vars

NextTwice == Call \/ RunAgain

SpecTwice == Init /\ [][NextTwice]_vars

----------------------------------------------------------------------------
(* The coverage-percent variant alone, over a wider choice of geometry *)

CoverageMeshValues == [p \in {"coverage"} |-> {<<8, 10>>, <<20, 10>>, <<10, 22>>, <<24, 60>>}]
CoverageCXValues == [p \in {"coverage"} |-> {<<0, 0>>, <<20, 20>>, <<20, 0>>}]

InitCoverage ==
    /\ InitOver({"coverage"}, CoverageMeshValues, CoverageCXValues, {0, 1}, {0})
    /\ WellFormed

NextCoverage ==
    \/ LoadMesh
    \/ LoadCX
    \/ SelectCoverage
    \/ WriteSurface
    \/ WriteVolume

SpecCoverage == InitCoverage /\ [][NextCoverage]_vars

(* The excluded-extent variant alone, over a wider choice of geometry *)

ExcludedMeshValues == [p \in {"excluded"} |-> {<<0, 0>>, <<1, 0>>, <<2, 0>>, <<4, 0>>}]
ExcludedCXValues == [p \in {"excluded"} |-> {<<1000, 0>>, <<3000, 0>>}]

InitExcluded ==
    /\ InitOver({"excluded"}, ExcludedMeshValues, ExcludedCXValues, {0, 1}, {0})
    /\ WellFormed

NextExcluded ==
    \/ LoadMesh
    \/ LoadCX
    \/ SelectExcluded
    \/ WriteSurface
    \/ WriteVolume

SpecExcluded == InitExcluded /\ [][NextExcluded]_vars

----------------------------------------------------------------------------
(* Properties *)

surface_file == files[SurfaceName(policy)]
volume_file == files[VolumeName]

(* the lines of the surface label file that carry the triple of triangle k *)
LinesOf(k) == {n \in DOMAIN surface_file.lines : Tail(surface_file.lines[n]) = f[k]}

(* the labels triangle k is written with *)
LabelsOf(k) == {surface_file.lines[n][1] : n \in LinesOf(k)}

(* C1: once the surface label file is written, every boundary triangle is on
   exactly one of its lines (no triangle written twice, none left out). *)
C1_EachTriangleOnce ==
    surface_file.exists =>
        \A k \in 1..NumFacets : Cardinality(LinesOf(k)) = 1

(* C2: in the coverage-percent and excluded-extent variants no triangle is
   written with both label 2 (inner) and label 1 (Dirichlet). *)
C2_InnerExcludesDirichlet ==
    (policy \in {"coverage", "excluded"} /\ surface_file.exists) =>
        \A k \in 1..NumFacets : ~({1, 2} \subseteq LabelsOf(k))

(* C3: when make_selections of the coverage-percent or excluded-extent variant
   returns, the volume label file exists; whenever it exists it has one line
   per tetrahedron, every line is the single integer 1 or 2, the numbers of
   1-lines and 2-lines add up to the tetrahedron count, and line n is the entry
   n of the volume label array. *)
C3_VolumeFileShape ==
    /\ (pc = "done" /\ policy # "extremal") => volume_file.exists
    /\ volume_file.exists =>
        LET lines == volume_file.lines
            ones == {n \in DOMAIN lines : lines[n] = <<1>>}
            twos == {n \in DOMAIN lines : lines[n] = <<2>>}
        IN  /\ Len(lines) = NumTets
            /\ \A n \in DOMAIN lines : lines[n] \in {<<1>>, <<2>>}
            /\ Cardinality(ones) + Cardinality(twos) = NumTets
            /\ \A n \in 1..NumTets : lines[n][1] = IF w1[n] <= 5 THEN 2 ELSE 1

C3_Witness ==
    /\ pc = "done"
    /\ volume_file.exists
    /\ \E m, n \in 1..NumTets : volume_file.lines[m] = <<1>> /\ volume_file.lines[n] = <<2>>

(* C4: tetrahedron n has volume label 1 exactly when its winding number is
   strictly above 0.5; a winding number of exactly 0.5, or below, leaves 2. *)
C4_InsideIffAboveHalf ==
    volume_file.exists =>
        \A n \in 1..NumTets :
            /\ (volume_file.lines[n] = <<1>>) <=> (w1[n] > 5)
            /\ (w1[n] = 5) => volume_file.lines[n] = <<2>>
            /\ (w1[n] < 5) => volume_file.lines[n] = <<2>>

C4_Witness ==
    /\ volume_file.exists
    /\ \E m, n \in 1..NumTets :
        /\ w1[m] = 5 /\ volume_file.lines[m] = <<2>>
        /\ w1[n] = 10 /\ volume_file.lines[n] = <<1>>

(* sums of the vertex coordinates of triangle k (three times its barycenter) *)
SumX(k) == v[f[k][1]][1] + v[f[k][2]][1] + v[f[k][3]][1]
SumY(k) == v[f[k][1]][2] + v[f[k][2]][2] + v[f[k][3]][2]

Selected == pc \in {"selected", "surface_written", "done"}

(* C5: under the coverage-percent policy triangle k is selected exactly when
   max_x - 0.5 * (max_x - min_x) <= barycenter x <= max_x and
   |barycenter y - y center| <= 0.6 * y range, all taken over the reference
   surface; for a reference surface spanning x in [0, 10] the boundary is 5.0,
   a barycenter at x = 6 inside the y band is selected and one at x = 4 is not. *)
C5_CoverageRegion ==
    (policy = "coverage" /\ Selected) =>
        LET xmax == ColMax(pts_ori_CX, 1)
            xmin == ColMin(pts_ori_CX, 1)
            ymax == ColMax(pts_ori_CX, 2)
            ymin == ColMin(pts_ori_CX, 2)
            InBand(k) == 10 * Abs(2 * SumY(k) - 3 * (ymax + ymin)) <= 36 * (ymax - ymin)
        IN  /\ \A k \in 1..NumFacets :
                dirichlet_selection[k] <=>
                    /\ 2 * SumX(k) >= 3 * (2 * xmax - (xmax - xmin))
                    /\ SumX(k) <= 3 * xmax
                    /\ InBand(k)
            /\ (xmin = 0 /\ xmax = 20) =>
                /\ coverage_boundary(pts_ori_CX) = Q * 10
                /\ \A k \in 1..NumFacets :
                    /\ (SumX(k) = 3 * 12 /\ InBand(k)) => dirichlet_selection[k]
                    /\ (SumX(k) = 3 * 8) => ~dirichlet_selection[k]

C5_Witness ==
    /\ policy = "coverage"
    /\ pc = "selected"
    /\ ColMin(pts_ori_CX, 1) = 0
    /\ ColMax(pts_ori_CX, 1) = 20
    /\ \E j, k \in 1..NumFacets :
        /\ SumX(j) = 3 * 12 /\ dirichlet_selection[j]
        /\ SumX(k) = 3 * 8 /\ ~dirichlet_selection[k]

(* the reference surface file has zero x-extent *)
DegenerateCX == \A i, j \in DOMAIN cx_file : cx_file[i][1] = cx_file[j][1]

(* C6: under the coverage-percent policy a reference surface of zero x-extent
   makes the call fail: no selection is computed and no label file written. *)
C6_DegenerateRaises ==
    (policy = "coverage" /\ DegenerateCX) =>
        /\ ~Selected
        /\ \A n \in FileNames : ~files[n].exists

(* C7: a second run on the same pair of files with the same policy leaves both
   label files exactly as the first run left them, line for line. *)
C7_Idempotent ==
    (run = 2 /\ pc \in {"done", "failed"}) => files = first_files

C7_Witness ==
    /\ run = 2
    /\ pc = "done"
    /\ files = first_files
    /\ Len(surface_file.lines) >= 2
    /\ policy # "extremal" => Len(volume_file.lines) = NumTets

GroupRank(label) == CASE label = 2 -> 1 [] label = 1 -> 2 [] label = 3 -> 3

(* C9: in the surface label file the label-2 lines come first, then the label-1
   lines, then the label-3 lines; the label-2 lines are the component-1
   triangles, the label-1 lines the selected triangles, the label-3 lines the
   unselected component-0 triangles; inside a group the triangles are in index
   order. *)
C9_GroupOrder ==
    surface_file.exists =>
        LET lines == surface_file.lines
            Tri(n) == CHOOSE k \in 1..NumFacets : f[k] = Tail(lines[n])
        IN  /\ \A m, n \in DOMAIN lines :
                m < n =>
                    /\ GroupRank(lines[m][1]) <= GroupRank(lines[n][1])
                    /\ lines[m][1] = lines[n][1] => Tri(m) < Tri(n)
            /\ \A k \in 1..NumFacets :
                /\ 2 \in LabelsOf(k) <=> c[k] = 1
                /\ 1 \in LabelsOf(k) <=> dirichlet_selection[k]
                /\ 3 \in LabelsOf(k) <=> (c[k] = 0 /\ ~dirichlet_selection[k])

C9_Witness ==
    /\ surface_file.exists
    /\ Len(surface_file.lines) = 3
    /\ surface_file.lines[1][1] = 2
    /\ surface_file.lines[2][1] = 1
    /\ surface_file.lines[3][1] = 3

(* the volumetric points outside the reference surface's x-range: below its
   minimum x or above its maximum x *)
OutsideCXRange == {i \in DOMAIN v : v[i][1] < ColMin(pts_ori_CX, 1)
                                    \/ v[i][1] > ColMax(pts_ori_CX, 1)}

(* C10 as stated: the selected triangles are exactly those whose barycenter x
   exceeds the largest x among the volumetric points outside the reference
   surface's x-range, on either side of it. *)
C10_OutsideBothSides ==
    (policy = "excluded" /\ Selected) =>
        \A k \in 1..NumFacets :
            dirichlet_selection[k] <=>
                (SumX(k) > 3 * MaxOf({v[i][1] : i \in OutsideCXRange}))

(* the volumetric points (after the rescale by 1000) strictly below the
   reference surface's minimum x *)
BelowCX == {i \in DOMAIN v : v[i][1] < ColMin(pts_ori_CX, 1)}

(* C10 amended: when some rescaled volumetric point lies strictly below the
   reference surface's minimum x, the selected triangles are exactly those whose
   barycenter x exceeds the largest x among these points (points above the
   reference surface's maximum x play no part); when no point lies below, the
   call ends in an error with no selection made and no label file written. *)
C10_BelowMinOnly ==
    (policy = "excluded" /\ pc \notin {"start", "mesh_loaded", "cx_loaded"}) =>
        IF BelowCX # {}
        THEN /\ Selected
             /\ \A k \in 1..NumFacets :
                    dirichlet_selection[k] <=>
                        (SumX(k) > 3 * MaxOf({v[i][1] : i \in BelowCX}))
        ELSE /\ pc = "failed"
             /\ error # "none"
             /\ \A n \in FileNames : ~files[n].exists

C10_Witness ==
    /\ policy = "excluded"
    /\ pc = "selected"
    /\ \E i \in DOMAIN v : v[i][1] > ColMax(pts_ori_CX, 1)
    /\ \E j, k \in 1..NumFacets : dirichlet_selection[j] /\ ~dirichlet_selection[k]

----------------------------------------------------------------------------
(* The extremal-line variant alone, over a wider choice of geometry *)

ExtremalMeshValues == [p \in {"extremal"} |-> {<<4, 1>>, <<4, 0>>, <<4, -1>>, <<2, -1>>}]
ExtremalCXValues == [p \in {"extremal"} |-> {<<4000, 1000>>, <<3999, 1000>>, <<2000, 0>>}]

InitExtremal ==
    /\ InitOver({"extremal"}, ExtremalMeshValues, ExtremalCXValues, {0, 1}, {0})
    /\ WellFormed

NextExtremal ==
    \/ LoadMesh
    \/ LoadCX
    \/ SelectExtremal
    \/ WriteSurface
    \/ ReturnInnerCount

SpecExtremal == InitExtremal /\ [][NextExtremal]_vars

(* All three variants on input files that may lack a cell block *)

InitMalformed ==
    /\ InitOver(Policies, MeshValues, CXValues, {0, 1}, {0})
    /\ mesh_has_tetra \in BOOLEAN
    /\ cx_has_triangle \in BOOLEAN

SpecMalformed == InitMalformed /\ [][Next]_vars

----------------------------------------------------------------------------
(* Properties of the extremal-line variant and of the error paths *)

(* C11: under the extremal-line policy, when the reference surface's max-x point
   lies above its min-y point (the line through them has a finite slope),
   triangle k is selected exactly when its barycenter x is inside
   [x_at_max_y + (max_x - x_at_max_y)/2, ceil(max_x)] and its barycenter is on
   the side of that line which the selected barycenters above min_y lie on,
   wherever the barycenter is, also at or below the surface's minimum y. *)
C11_BandAndLineSide ==
    (policy = "extremal" /\ Selected) =>
        LET p1 == pts_ori_CX[ArgMax(pts_ori_CX, 1)]
            p2 == pts_ori_CX[ArgMin(pts_ori_CX, 2)]
            p3 == pts_ori_CX[ArgMax(pts_ori_CX, 2)]
            InXBand(k) == /\ 2 * SumX(k) >= 3 * (p3[1] + p1[1])
                          /\ SumX(k) <= 3 * 2 * ((p1[1] + 1) \div 2)
            LineSide(k) == (SumX(k) - 3 * p2[1]) * (p1[2] - p2[2])
                              >= (p1[1] - p2[1]) * (SumY(k) - 3 * p2[2])
        IN  p1[2] > p2[2] =>
                \A k \in 1..NumFacets :
                    dirichlet_selection[k] <=> (InXBand(k) /\ LineSide(k))

(* some cell block that make_selections reads is missing from its file *)
MissingBlock == ~mesh_has_tetra \/ ~cx_has_triangle

(* C12: when the volumetric mesh has no tetra block or the reference surface
   has no triangle block, the call never completes and no label file is ever
   created or written. *)
C12_FailsBeforeAnyFile ==
    MissingBlock =>
        /\ pc # "done"
        /\ \A n \in FileNames : ~files[n].exists

(* C13: a surface label file is never written from a selection that holds every
   boundary triangle or none: such a selection ends the call in an error. *)
C13_DegenerateSelectionReported ==
    surface_file.exists =>
        \E j, k \in 1..NumFacets : dirichlet_selection[j] /\ ~dirichlet_selection[k]

(* C14 as stated: after the call the volumetric mesh's point array and the
   reference surface's point array hold the values they were loaded with. *)
C14_PointsAsLoaded ==
    pc = "done" => (v = mesh_file /\ pts_ori_CX = cx_file)

(* C14 amended: the reference surface's points always hold the loaded values and
   neither input file changes; the volumetric mesh's points hold the loaded
   values in the coverage-percent variant and the loaded values times 1000 in
   the excluded-extent and extremal-line variants, from the load onwards. *)
C14_PointsRescaledInPlace ==
    /\ pc \notin {"start", "mesh_loaded"} /\ (pc = "failed" => mesh_has_tetra)
        => pts_ori_CX = cx_file
    /\ pc # "start" =>
        /\ DOMAIN v = DOMAIN mesh_file
        /\ \A i \in DOMAIN v :
            IF policy = "coverage"
            THEN v[i] = mesh_file[i]
            ELSE v[i] = <<1000 * mesh_file[i][1], 1000 * mesh_file[i][2]>>

C14_Witness ==
    /\ pc = "done"
    /\ policy = "excluded"
    /\ v # mesh_file
    /\ pts_ori_CX = cx_file

(***************************************************************************)
(* scripts/single_extract.py: extract_optimization_data.  A log is a       *)
(* sequence of lines; a line is what the function's patterns find in it.   *)
(* Values that may be None, a number or a word are tagged.  Times and      *)
(* objective values are in tenths.                                         *)
(***************************************************************************)
MaxLogLen == 4

None == [tag |-> "None", n |-> 0]
Num(n) == [tag |-> "int", n |-> n]
Word(w) == [tag |-> w, n |-> 0]

Line(kind, a, b) == [kind |-> kind, a |-> a, b |-> b]

LogLines ==
    {Line("bbw", 8, 0), Line("lbfgs", 0, 0), Line("step", 1, 1), Line("step", 1, 2),
     Line("step", 2, 2), Line("took", 35, 0), Line("target_match", 7, 0),
     Line("save", 0, 0), Line("other", 0, 0)}

Logs == UNION {[1..n -> LogLines] : n \in 0..MaxLogLen}

NoCSV == [exists |-> FALSE, header |-> FALSE, rows |-> <<>>]
OldCSV == [exists |-> TRUE, header |-> FALSE, rows |-> <<Word("old")>>]

(* the locals of extract_optimization_data before the first line *)
ExtractStart(lines, csv_file) ==
    [pc |-> "scanning", error |-> "", lines |-> lines, line_idx |-> 0,
     csv_before |-> csv_file, csv |-> csv_file,
     simulation_data |-> <<>>,
     current_level |-> None, current_control_points |-> None,
     current_iteration |-> None, level_counter |-> 0,
     needs_new_full_level |-> FALSE,
     simulations_in_current_iteration |-> <<>>,
     pending_simulation |-> None]

(* sim['simulation_in_iteration'] = i for the i-th entry, from 0 *)
Renumbered(sims) ==
    [i \in 1..Len(sims) |-> [sims[i] EXCEPT !.simulation_in_iteration = i - 1]]

(* a BBW line starts a level; an L-BFGS line starts one after an iteration
   save of a control point level or when there is no level yet *)
StartsLevel(e, line) ==
    \/ line.kind = "bbw"
    \/ /\ line.kind = "lbfgs"
       /\ e.needs_new_full_level \/ e.current_control_points = None

(* the level bookkeeping of a BBW or L-BFGS line *)
TrackLevel(e, line) ==
    LET started ==
            IF StartsLevel(e, line)
            THEN [e EXCEPT !.current_level = Num(e.level_counter),
                           !.current_control_points =
                               IF line.kind = "bbw" THEN Num(line.a) ELSE Num(-1),
                           !.current_iteration = None,
                           !.level_counter = @ + 1,
                           !.needs_new_full_level =
                               IF line.kind = "bbw" THEN @ ELSE FALSE]
            ELSE e
    IN  IF line.kind = "lbfgs" THEN [started EXCEPT !.current_iteration = Num(0)]
        ELSE started

(* a variant that stays on the saved iteration *)
TrackSaveSameIteration(e, line) ==
    IF line.kind = "save"
    THEN [e EXCEPT !.current_iteration = Num(line.a),
                   !.needs_new_full_level =
                       IF e.current_control_points # Num(-1) THEN TRUE ELSE @]
    ELSE e

(* the iteration bookkeeping of a "Saving iteration k" line *)
TrackSave(e, line) ==
    IF line.kind = "save"
    THEN [e EXCEPT !.current_iteration = Num(line.a + 1),
                   !.needs_new_full_level =
                       IF e.current_control_points # Num(-1) THEN TRUE ELSE @]
    ELSE e

(* a new level first moves the simulations collected so far into
   simulation_data, or drops them when there was no level *)
LevelStep(e, line) ==
    LET sims == e.simulations_in_current_iteration
        flushed ==
            IF StartsLevel(e, line)
            THEN [e EXCEPT !.simulation_data =
                               IF sims # <<>> /\ e.current_level # None
                               THEN @ \o Renumbered(sims) ELSE @,
                           !.simulations_in_current_iteration = <<>>]
            ELSE e
    IN  [TrackLevel(e, line) EXCEPT
            !.simulation_data = flushed.simulation_data,
            !.simulations_in_current_iteration = flushed.simulations_in_current_iteration]

ControlPointsField(cp) == IF cp = Num(-1) THEN Word("full") ELSE cp

SimRecord(pending, position, sim_time, status) ==
    [level |-> pending.level,
     control_points |-> ControlPointsField(pending.control_points),
     iteration |-> pending.iteration,
     simulation_in_iteration |-> position,
     simulation_time |-> sim_time,
     status |-> status,
     target_match |-> None]

Incomplete(pending) == pending.tag # "None" /\ ~pending.completed

(* a step line i/N starts a simulation (i = 1) or completes the pending one
   (i = N); any other line read while a completed simulation is pending
   reaches the use of simulation_time_pattern, a name the function never
   binds *)
SimulationStep(e, line) ==
    LET pending == e.pending_simulation
        sims == e.simulations_in_current_iteration
    IN  IF line.kind = "step"
        THEN IF line.a = 1
             THEN [e EXCEPT
                     !.simulations_in_current_iteration =
                         IF Incomplete(pending)
                         THEN Append(sims, SimRecord(pending, pending.simulation_in_iteration,
                                                     None, "incomplete"))
                         ELSE sims,
                     !.pending_simulation =
                         [tag |-> "dict",
                          level |-> e.current_level,
                          control_points |-> e.current_control_points,
                          iteration |-> IF e.current_iteration # None
                                        THEN e.current_iteration ELSE Word("pre_opt"),
                          simulation_in_iteration |-> Len(sims),
                          completed |-> FALSE,
                          total_steps |-> line.b]]
             ELSE IF line.a = line.b /\ pending.tag # "None"
                  THEN [e EXCEPT !.pending_simulation.completed = TRUE]
                  ELSE e
        ELSE IF pending.tag # "None" /\ pending.completed
             THEN [e EXCEPT !.pc = "raised", !.error = "NameError"]
             ELSE e

(* an objective value goes to the last simulation collected *)
ObjectiveStep(e, line) ==
    LET sims == e.simulations_in_current_iteration
    IN  IF sims # <<>> /\ line.kind = "target_match"
        THEN [e EXCEPT !.simulations_in_current_iteration[Len(sims)].target_match =
                           Num(line.a)]
        ELSE e

(* an iteration save moves the collected simulations into simulation_data *)
SaveStep(e, line) ==
    IF line.kind = "save"
    THEN [TrackSave(e, line) EXCEPT
            !.simulation_data = @ \o Renumbered(e.simulations_in_current_iteration),
            !.simulations_in_current_iteration = <<>>]
    ELSE e

(* make_selections is not called while a script runs *)
ClassifierNotRunning ==
    /\ policy = "coverage"
    /\ mesh_file = <<>>
    /\ cx_file = <<>>
    /\ mesh_has_tetra = TRUE
    /\ cx_has_triangle = TRUE
    /\ c = <<>>
    /\ w1 = <<>>
    /\ v = <<>>
    /\ pts_ori_CX = <<>>
    /\ dirichlet_selection = <<>>
    /\ files = [n \in FileNames |-> NoFile]
    /\ pc = "not_running"
    /\ error = "none"
    /\ run = 1
    /\ first_files = [n \in FileNames |-> NoFile]

(* one pass of `for line_idx, line in enumerate(lines)` *)
ScanLine ==
    /\ extract.pc = "scanning"
    /\ extract.line_idx < Len(extract.lines)
    /\ LET line == extract.lines[extract.line_idx + 1]
           levelled == LevelStep(extract, line)
           simulated == SimulationStep(levelled, line)
           saved == SaveStep(ObjectiveStep(simulated, line), line)
       IN  extract' = IF simulated.pc = "raised" THEN simulated
                      ELSE [saved EXCEPT !.line_idx = @ + 1]
    /\ UNCHANGED <<classifier, submit, grid, cleanup>>

(* after the loop: the simulations still collected, then a pending simulation
   that never completed *)
FlushRemaining ==
    /\ extract.pc = "scanning"
    /\ extract.line_idx = Len(extract.lines)
    /\ LET sims == extract.simulations_in_current_iteration
           pending == extract.pending_simulation
           flushed == IF sims # <<>> /\ extract.current_level # None
                      THEN extract.simulation_data \o Renumbered(sims)
                      ELSE extract.simulation_data
       IN  extract' = [extract EXCEPT
                         !.pc = "scanned",
                         !.simulations_in_current_iteration =
                             IF sims # <<>> /\ extract.current_level # None
                             THEN Renumbered(sims) ELSE sims,
                         !.simulation_data =
                             IF Incomplete(pending)
                             THEN Append(flushed, SimRecord(pending, Len(sims), None,
                                                            "incomplete"))
                             ELSE flushed]
    /\ UNCHANGED <<classifier, submit, grid, cleanup>>

(* a variant that opens the CSV for writing before it looks at the records *)
WriteCSVOpenedFirst ==
    /\ extract.pc = "scanned"
    /\ extract' =
        IF extract.simulation_data # <<>>
        THEN [extract EXCEPT !.pc = "done",
                             !.csv = [exists |-> TRUE, header |-> TRUE,
                                      rows |-> extract.simulation_data]]
        ELSE [extract EXCEPT !.pc = "raised", !.error = "ValueError",
                             !.csv = [exists |-> TRUE, header |-> FALSE, rows |-> <<>>]]
    /\ UNCHANGED <<classifier, submit, grid, cleanup>>

(* `if simulation_data:` open the CSV for writing, header, one row per
   record; `else: raise ValueError` *)
WriteCSV ==
    /\ extract.pc = "scanned"
    /\ extract' =
        IF extract.simulation_data # <<>>
        THEN [extract EXCEPT !.pc = "done",
                             !.csv = [exists |-> TRUE, header |-> TRUE,
                                      rows |-> extract.simulation_data]]
        ELSE [extract EXCEPT !.pc = "raised", !.error = "ValueError"]
    /\ UNCHANGED <<classifier, submit, grid, cleanup>>

InitExtract ==
    /\ ClassifierNotRunning
    /\ extract \in {ExtractStart(lines, csv_file) :
                        lines \in Logs, csv_file \in {NoCSV, OldCSV}}
    /\ submit = NotRunning
    /\ grid = NotRunning
    /\ cleanup = NotRunning

NextExtract == ScanLine \/ FlushRemaining \/ WriteCSV

SpecExtract == InitExtract /\ [][NextExtract]_vars

(***************************************************************************)
(* Properties of extract_optimization_data                                 *)
(***************************************************************************)
ExtractEnded == extract.pc \in {"done", "raised"}

(* the step lines 1/N .. N/N of one simulation start at line i of the log and
   a `took` line follows them *)
CompleteSimulationAt(lines, i) ==
    \E N \in 1..2 :
        /\ i + N <= Len(lines)
        /\ \A j \in 1..N : lines[i + j - 1] = Line("step", j, N)
        /\ lines[i + N].kind = "took"

TookAfter(lines, i) ==
    IF lines[i] = Line("step", 1, 1) THEN lines[i + 1].a ELSE lines[i + 2].a

(* the level bookkeeping after the first n lines *)
RECURSIVE LevelsAfter(_, _)
LevelsAfter(lines, n) ==
    IF n = 0
    THEN [current_level |-> None, current_control_points |-> None,
          current_iteration |-> None, level_counter |-> 0,
          needs_new_full_level |-> FALSE]
    ELSE TrackSave(TrackLevel(LevelsAfter(lines, n - 1), lines[n]), lines[n])

CompletedRows(rows) == SelectSeq(rows, LAMBDA r : r.status = "completed")

(* C15: when the call has ended, the output CSV holds, for each simulation of
   the log whose step lines run 1/N .. N/N and are followed by a `took T`
   line, one row with status completed, time T, and the level and control
   point count in effect at its first step line; and no other completed row. *)
C15_CompletedSimulationsRecorded ==
    ExtractEnded =>
        LET lines == extract.lines
            starts == {i \in 1..Len(lines) : CompleteSimulationAt(lines, i)}
            done == CompletedRows(IF extract.csv.header THEN extract.csv.rows ELSE <<>>)
        IN  /\ Len(done) = Cardinality(starts)
            /\ \A i \in starts :
                LET k == Cardinality({j \in starts : j <= i})
                    at == LevelsAfter(lines, i - 1)
                IN  /\ done[k].simulation_time = Num(TookAfter(lines, i))
                    /\ done[k].level = at.current_level
                    /\ done[k].control_points =
                           ControlPointsField(at.current_control_points)

(* C16: a call that has read the whole log and holds no simulation record
   raises ValueError; the CSV differs from what it was before the call, absent
   or with its old content, only after a call that returned; and a call that
   returned had at least one record and left a CSV with the header and one
   row per record. *)
C16_CSVOnlyWithRecords ==
    /\ extract.pc = "raised" /\ extract.line_idx = Len(extract.lines)
           => extract.error = "ValueError" /\ extract.simulation_data = <<>>
    /\ extract.pc \in {"scanning", "scanned", "raised"}
           => extract.csv = extract.csv_before
    /\ extract.pc = "done"
           => /\ extract.simulation_data # <<>>
              /\ extract.csv.exists /\ extract.csv.header
              /\ Len(extract.csv.rows) = Len(extract.simulation_data)
              /\ extract.csv.rows = extract.simulation_data

C16_Witness ==
    /\ extract.pc = "raised"
    /\ extract.error = "ValueError"
    /\ extract.lines # <<>>
    /\ extract.csv = OldCSV

(***************************************************************************)
(* scripts/submit_grid_jobs.py: main.  A job is known by its job_id; a     *)
(* file of a result directory is known by the position in the loop of the  *)
(* job that wrote it, or is old when it was there before the run.          *)
(***************************************************************************)
MaxJobs == 2

JobIds == {"a", "b"}

JobLists == UNION {[1..n -> JobIds] : n \in 0..MaxJobs}

(* --max-jobs: not given, or an integer *)
MaxJobsValues == {None} \cup {Num(n) : n \in -1..MaxJobs + 1}

NoDir == [exists |-> FALSE, run_config |-> None, state_config |-> None,
          data |-> None, slurm_job |-> None]
OldDir == [exists |-> TRUE, run_config |-> Word("old"), state_config |-> Word("old"),
           data |-> Word("old"), slurm_job |-> Word("old")]

(* `if args.max_jobs:` is true for an integer other than 0 *)
Truthy(max_jobs) == max_jobs # None /\ max_jobs.n # 0

(* jobs[:n] *)
SliceTo(jobs, n) ==
    IF n >= 0 THEN SubSeq(jobs, 1, MinOf({n, Len(jobs)}))
    ELSE SubSeq(jobs, 1, MaxOf({Len(jobs) + n, 0}))

LimitJobs(jobs, max_jobs) ==
    IF Truthy(max_jobs) THEN SliceTo(jobs, max_jobs.n) ELSE jobs

(* create_job_directory for the job at position k: the directory is made, the
   configs are copied while they are found, then the data files *)
create_job_directory(dir, config, k) ==
    CASE config = "none" ->
            [raised |-> TRUE, dir |-> [dir EXCEPT !.exists = TRUE]]
      [] config = "run_only" ->
            [raised |-> TRUE,
             dir |-> [dir EXCEPT !.exists = TRUE, !.run_config = Num(k)]]
      [] config = "both" ->
            [raised |-> FALSE,
             dir |-> [dir EXCEPT !.exists = TRUE, !.run_config = Num(k),
                                 !.state_config = Num(k), !.data = Num(k)]]

(* a variant that runs sbatch whatever dry_run says *)
submit_job_always(dry_run, sbatch_ok) ==
    [sbatch |-> TRUE, result |-> sbatch_ok,
     message |-> IF sbatch_ok THEN "Submitted" ELSE "ERROR submitting job"]

(* submit_job: whether sbatch is run, what is returned, what is printed *)
submit_job(dry_run, sbatch_ok) ==
    IF dry_run
    THEN [sbatch |-> FALSE, result |-> TRUE, message |-> "[DRY RUN] Would submit"]
    ELSE [sbatch |-> TRUE, result |-> sbatch_ok,
          message |-> IF sbatch_ok THEN "Submitted" ELSE "ERROR submitting job"]

(* a variant that never skips *)
SkipsNever(s, job_id) == FALSE

(* `if args.skip_existing and job_dir.exists()` *)
Skips(s, job_id) == s.args.skip_existing /\ s.dirs[job_id].exists

SubmitStart(args, required_ok, template_ok, configs, job_list, dirs) ==
    [pc |-> "start", args |-> args, required_ok |-> required_ok,
     template_ok |-> template_ok, configs |-> configs, job_list |-> job_list,
     dirs |-> dirs, jobs |-> <<>>, i |-> 0, submitted |-> 0, skipped |-> 0,
     failed |-> 0, sbatch_calls |-> <<>>, printed |-> <<>>, exit_code |-> None]

(* main up to the loop: the required paths, then the job list and its limit *)
LoadJobs ==
    /\ submit.pc = "start"
    /\ submit' =
        IF ~submit.required_ok
        THEN [submit EXCEPT !.pc = "done", !.exit_code = Num(1)]
        ELSE [submit EXCEPT !.pc = "looping",
                            !.jobs = LimitJobs(submit.job_list, submit.args.max_jobs)]
    /\ UNCHANGED <<classifier, extract, grid, cleanup>>

(* one pass of `for i, job_info in enumerate(jobs, 1)` *)
ProcessJob ==
    /\ submit.pc = "looping"
    /\ submit.i < Len(submit.jobs)
    /\ \E sbatch_ok \in BOOLEAN :
        LET k == submit.i + 1
            job_id == submit.jobs[k]
            created == create_job_directory(submit.dirs[job_id], submit.configs[job_id], k)
            call == submit_job(submit.args.dry_run, sbatch_ok)
            Said(message) == Append(submit.printed, [job_id |-> job_id, message |-> message])
        IN  submit' =
              IF Skips(submit, job_id)
              THEN [submit EXCEPT !.i = k, !.skipped = @ + 1,
                                  !.printed = Said("Skipping: directory already exists")]
              ELSE IF created.raised
              THEN [submit EXCEPT !.i = k, !.failed = @ + 1,
                                  !.dirs[job_id] = created.dir,
                                  !.printed = Said("ERROR creating job directory")]
              ELSE IF ~submit.template_ok
              THEN [submit EXCEPT !.i = k, !.failed = @ + 1,
                                  !.dirs[job_id] = created.dir,
                                  !.printed = Said("ERROR filling template")]
              ELSE [submit EXCEPT
                      !.i = k,
                      !.dirs[job_id] = [created.dir EXCEPT !.slurm_job = Num(k)],
                      !.sbatch_calls = IF call.sbatch THEN Append(@, k) ELSE @,
                      !.submitted = IF call.result THEN @ + 1 ELSE @,
                      !.failed = IF call.result THEN @ ELSE @ + 1,
                      !.printed = Said(call.message)]
    /\ UNCHANGED <<classifier, extract, grid, cleanup>>

(* the summary and `return 0 if failed == 0 else 1` *)
Summary ==
    /\ submit.pc = "looping"
    /\ submit.i = Len(submit.jobs)
    /\ submit' = [submit EXCEPT !.pc = "done",
                                !.exit_code = IF submit.failed = 0 THEN Num(0) ELSE Num(1)]
    /\ UNCHANGED <<classifier, extract, grid, cleanup>>

InitSubmit ==
    /\ ClassifierNotRunning
    /\ extract = NotRunning
    /\ grid = NotRunning
    /\ cleanup = NotRunning
    /\ submit \in
        {SubmitStart([dry_run |-> d, skip_existing |-> k, max_jobs |-> m], r, t, cf, jl,
                     [id \in JobIds |-> IF id \in old THEN OldDir ELSE NoDir]) :
            d \in BOOLEAN, k \in BOOLEAN, m \in MaxJobsValues, r \in BOOLEAN,
            t \in BOOLEAN, cf \in [JobIds -> {"both", "run_only", "none"}],
            jl \in JobLists, old \in SUBSET JobIds}

NextSubmit == LoadJobs \/ ProcessJob \/ Summary

SpecSubmit == InitSubmit /\ [][NextSubmit]_vars

(***************************************************************************)
(* Properties of submit_grid_jobs                                          *)
(***************************************************************************)
(* what submit_job prints: the jobs that reached the submit step *)
SubmitStepMessages == {"[DRY RUN] Would submit", "Submitted", "ERROR submitting job"}

ReachedSubmitStep ==
    {k \in 1..Len(submit.printed) : submit.printed[k].message \in SubmitStepMessages}

(* C17: with --dry-run sbatch is never run, and the count of submitted jobs is
   the number of jobs that reached the submit step. *)
C17_DryRunNeverSubmits ==
    submit.pc # "not_running" /\ submit.args.dry_run =>
        /\ submit.sbatch_calls = <<>>
        /\ submit.submitted = Cardinality(ReachedSubmitStep)
        /\ \A k \in ReachedSubmitStep :
               submit.printed[k].message = "[DRY RUN] Would submit"

C17_Witness ==
    /\ submit.pc = "done"
    /\ submit.args.dry_run
    /\ ~submit.args.skip_existing
    /\ submit.submitted = 1
    /\ submit.failed = 1
    /\ submit.sbatch_calls = <<>>

(* C18: with --skip-existing, the processing of a job whose result directory
   exists at its turn adds one to skipped, leaves submitted and failed as they
   are, runs no sbatch and changes no result directory. *)
C18_SkippedJobUntouched ==
    [][(/\ submit.pc = "looping"
        /\ submit.i < Len(submit.jobs)
        /\ submit.args.skip_existing
        /\ submit.dirs[submit.jobs[submit.i + 1]].exists)
          => /\ submit'.skipped = submit.skipped + 1
             /\ submit'.submitted = submit.submitted
             /\ submit'.failed = submit.failed
             /\ submit'.sbatch_calls = submit.sbatch_calls
             /\ submit'.dirs = submit.dirs]_vars

C18_Witness ==
    /\ submit.pc = "done"
    /\ submit.args.skip_existing
    /\ ~submit.args.dry_run
    /\ submit.skipped = 1
    /\ submit.submitted = 1
    /\ submit.dirs[submit.jobs[1]] = OldDir
    /\ submit.printed[1].message = "Skipping: directory already exists"

(* C19: with --max-jobs N, for every integer N, the jobs processed are the
   first N entries of the job list (all of them when there are fewer, none
   when N is not positive), so at most N jobs are processed and at most N
   submitted. *)
C19_AtMostMaxJobs ==
    submit.pc \in {"looping", "done"} /\ submit.required_ok
      /\ submit.args.max_jobs # None =>
        LET N == MaxOf({submit.args.max_jobs.n, 0})
        IN  /\ Len(submit.jobs) <= N
            /\ Len(submit.jobs) = N \/ Len(submit.jobs) = Len(submit.job_list)
            /\ submit.jobs = SubSeq(submit.job_list, 1, Len(submit.jobs))
            /\ submit.submitted + submit.skipped + submit.failed <= N
            /\ Len(submit.sbatch_calls) <= N

(***************************************************************************)
(* scripts/generate_grid_configs.py.  A weight is m/10 * 10^e with a two   *)
(* digit mantissa m in 10..99 (positive, and not ending in 5, where the    *)
(* rounding depends on the binary value); a pressure is in tenths.  A job  *)
(* id or file name is the tuple of the pieces of its string.               *)
(***************************************************************************)
MaxAxis == 2

Weights == {[m |-> 10, e |-> -3], [m |-> 14, e |-> -3], [m |-> 20, e |-> -3],
            [m |-> 96, e |-> -4], [m |-> 10, e |-> 2]}

Pressures == {12000, 12004, 15000}

(* lists of distinct values, as a parameter grid lists them *)
Axes(values) ==
    UNION {{a \in [1..n -> values] : \A i, j \in 1..n : a[i] = a[j] => i = j} :
               n \in 1..MaxAxis}

(* f"{x:.0e}": one digit, the exponent with its sign and two digits *)
FormatE0(w) ==
    LET d == (w.m + 5) \div 10
        digit == IF d = 10 THEN 1 ELSE d
        e == IF d = 10 THEN w.e + 1 ELSE w.e
    IN  <<ToString(digit), "e", IF e < 0 THEN "-" ELSE "+",
          IF Abs(e) < 10 THEN "0" ELSE "", ToString(Abs(e))>>

(* .replace('+', '').replace('-', 'n') *)
ReplaceSigns(str) ==
    [i \in DOMAIN str |->
        IF str[i] = "+" THEN "" ELSE IF str[i] = "-" THEN "n" ELSE str[i]]

(* f"{x:.0f}" of a pressure in tenths *)
FormatF0(pressure) == ToString((pressure + 5) \div 10)

(* f"itm_w{itm_w_str}_pb_p{pb_p_str}" *)
generate_job_id(params) ==
    <<"itm_w">> \o ReplaceSigns(FormatE0(params.weight))
        \o <<"_pb_p", FormatF0(params.pressure_magnitude)>>

(* itertools.product(weight, pressure_magnitude), in order *)
generate_parameter_combinations(weights, pressures) ==
    [k \in 1..(Len(weights) * Len(pressures)) |->
        [weight |-> weights[((k - 1) \div Len(pressures)) + 1],
         pressure_magnitude |-> pressures[((k - 1) % Len(pressures)) + 1]]]

(* open(path, 'w') and json.dump: the file at `name` now holds `content` *)
Dump(output_dir, name, content) ==
    IF \E n \in DOMAIN output_dir : output_dir[n].name = name
    THEN [n \in DOMAIN output_dir |->
            IF output_dir[n].name = name
            THEN [name |-> name, content |-> content] ELSE output_dir[n]]
    ELSE Append(output_dir, [name |-> name, content |-> content])

GridStart(weights, pressures) ==
    [pc |-> "generating", weights |-> weights, pressures |-> pressures,
     combinations |-> generate_parameter_combinations(weights, pressures),
     i |-> 0, job_list |-> <<>>, output_dir |-> <<>>]

(* one pass of `for i, params in enumerate(combinations)` *)
GenerateConfigs ==
    /\ grid.pc = "generating"
    /\ grid.i < Len(grid.combinations)
    /\ LET params == grid.combinations[grid.i + 1]
           job_id == generate_job_id(params)
           run_config_filename == <<"run_">> \o job_id \o <<".json">>
           state_config_filename == <<"state_">> \o job_id \o <<".json">>
           job_info == [job_id |-> job_id,
                        run_config_file |-> run_config_filename,
                        state_config_file |-> state_config_filename,
                        parameters |-> params]
       IN  grid' = [grid EXCEPT
                      !.i = @ + 1,
                      !.output_dir =
                          Dump(Dump(@, state_config_filename, <<params>>),
                               run_config_filename,
                               <<params, state_config_filename>>),
                      !.job_list = Append(@, job_info)]
    /\ UNCHANGED <<classifier, extract, submit, cleanup>>

(* job_list.yaml is written after the loop *)
SaveJobList ==
    /\ grid.pc = "generating"
    /\ grid.i = Len(grid.combinations)
    /\ grid' = [grid EXCEPT
                  !.pc = "done",
                  !.output_dir = Dump(@, <<"job_list.yaml">>, grid.job_list)]
    /\ UNCHANGED <<classifier, extract, submit, cleanup>>

InitGrid ==
    /\ ClassifierNotRunning
    /\ extract = NotRunning
    /\ submit = NotRunning
    /\ cleanup = NotRunning
    /\ grid \in {GridStart(weights, pressures) :
                    weights \in Axes(Weights), pressures \in Axes(Pressures)}

NextGrid == GenerateConfigs \/ SaveJobList

SpecGrid == InitGrid /\ [][NextGrid]_vars

(***************************************************************************)
(* Properties of generate_grid_configs                                     *)
(***************************************************************************)
(* C20: two jobs of one grid whose weight or pressure differ have different
   job ids, different config file names, and each its own config files. *)
C20_JobIdsUnique ==
    grid.pc # "not_running" =>
        /\ \A j, k \in 1..Len(grid.job_list) :
            grid.job_list[j].parameters # grid.job_list[k].parameters =>
                /\ grid.job_list[j].job_id # grid.job_list[k].job_id
                /\ grid.job_list[j].run_config_file # grid.job_list[k].run_config_file
                /\ grid.job_list[j].state_config_file # grid.job_list[k].state_config_file
        /\ \A j \in 1..Len(grid.job_list) :
            \E n \in DOMAIN grid.output_dir :
                /\ grid.output_dir[n].name = grid.job_list[j].state_config_file
                /\ grid.output_dir[n].content = <<grid.job_list[j].parameters>>

(***************************************************************************)
(* scripts/vtu_cleanup.py: cleanup_job_folder.  A file name is the record  *)
(* of its pieces: stem, X, Y, Z (sequences of characters), the text        *)
(* between Z and the dot, and the extension.                               *)
(***************************************************************************)
MaxFiles == 2

DigitValue == ("0" :> 0) @@ ("1" :> 1) @@ ("3" :> 3) @@ ("5" :> 5)

FileNameOf(stem, x, y, z, surf, ext) ==
    [stem |-> stem, x |-> x, y |-> y, z |-> z, surf |-> surf, ext |-> ext]

(* opt_1_10_3.vtu, opt_1_010_3_surf.vtm, opt_1_x_3.vtu, ... and three names
   that differ from the pattern in the stem, the suffix or the extension *)
FileNames3 ==
    {FileNameOf("opt_", <<"1">>, y, <<"3">>, surf, ext) :
        y \in {<<"1", "0">>, <<"0", "1", "0">>, <<"5">>, <<"x">>},
        surf \in {"", "_surf"},
        ext \in {".vtu", ".vtm"}}
    \cup {FileNameOf("xopt_", <<"1">>, <<"5">>, <<"3">>, "", ".vtu"),
          FileNameOf("opt_", <<"1">>, <<"5">>, <<"3">>, "_surfx", ".vtm"),
          FileNameOf("opt_", <<"1">>, <<"5">>, <<"3">>, "", ".txt")}

(* the folders of at most MaxFiles files *)
Folders ==
    UNION {{{names[i] : i \in 1..n} : names \in [1..n -> FileNames3]} : n \in 0..MaxFiles}

(* (\d+) *)
IsDigits(str) == Len(str) >= 1 /\ \A i \in DOMAIN str : str[i] \in DOMAIN DigitValue

(* int(group) *)
RECURSIVE IntOf(_)
IntOf(str) ==
    IF str = <<>> THEN 0
    ELSE 10 * IntOf(SubSeq(str, 1, Len(str) - 1)) + DigitValue[str[Len(str)]]

(* re.match of opt_(\d+)_(\d+)_(\d+)<suffix>\.(vtu|vtm)$ *)
MatchesPattern(filename, suffix) ==
    /\ filename.stem = "opt_"
    /\ IsDigits(filename.x) /\ IsDigits(filename.y) /\ IsDigits(filename.z)
    /\ filename.surf = suffix
    /\ filename.ext \in {".vtu", ".vtm"}

(* a variant that returns the third number *)
extract_control_points_number(filename) ==
    IF MatchesPattern(filename, "_surf") THEN Num(IntOf(filename.z))
    ELSE IF MatchesPattern(filename, "") THEN Num(IntOf(filename.z))
    ELSE None

extract_iteration_number(filename) ==
    IF MatchesPattern(filename, "_surf") THEN Num(IntOf(filename.y))
    ELSE IF MatchesPattern(filename, "") THEN Num(IntOf(filename.y))
    ELSE None

(* job_path.glob(pattern) *)
Glob(folder, ext) == {filename \in folder : filename.ext = ext}

CleanupStart(folder) ==
    [pc |-> "start", before |-> folder, folder |-> folder, vtu |-> {}, vtm |-> {},
     deleted_count |-> 0, kept_count |-> 0, errors |-> 0, returned |-> None]

(* files_to_check: the *.vtu files, then the *.vtm files *)
FindFiles ==
    /\ cleanup.pc = "start"
    /\ cleanup' = [cleanup EXCEPT !.pc = "checking",
                                  !.vtu = Glob(cleanup.folder, ".vtu"),
                                  !.vtm = Glob(cleanup.folder, ".vtm")]
    /\ UNCHANGED <<classifier, extract, submit, grid>>

(* one pass of `for file_path in files_to_check`; the order within one glob
   is the file system's, and unlink may fail *)
CheckFile ==
    /\ cleanup.pc = "checking"
    /\ \E filename \in IF cleanup.vtu # {} THEN cleanup.vtu ELSE cleanup.vtm,
          unlinked \in BOOLEAN :
        LET iteration_num == extract_iteration_number(filename)
            rest == [cleanup EXCEPT !.vtu = @ \ {filename}, !.vtm = @ \ {filename}]
        IN  cleanup' =
              IF iteration_num = None THEN rest
              ELSE IF iteration_num # Num(10)
              THEN IF unlinked
                   THEN [rest EXCEPT !.folder = @ \ {filename}, !.deleted_count = @ + 1]
                   ELSE [rest EXCEPT !.errors = @ + 1]
              ELSE [rest EXCEPT !.kept_count = @ + 1]
    /\ UNCHANGED <<classifier, extract, submit, grid>>

(* return deleted_count, kept_count *)
ReturnCounts ==
    /\ cleanup.pc = "checking"
    /\ cleanup.vtu = {} /\ cleanup.vtm = {}
    /\ cleanup' = [cleanup EXCEPT
                     !.pc = "returned",
                     !.returned = <<cleanup.deleted_count, cleanup.kept_count>>]
    /\ UNCHANGED <<classifier, extract, submit, grid>>

InitCleanup ==
    /\ ClassifierNotRunning
    /\ extract = NotRunning
    /\ submit = NotRunning
    /\ grid = NotRunning
    /\ cleanup \in {CleanupStart(folder) : folder \in Folders}

NextCleanup == FindFiles \/ CheckFile \/ ReturnCounts

SpecCleanup == InitCleanup /\ [][NextCleanup]_vars

(***************************************************************************)
(* Properties of cleanup_job_folder                                        *)
(***************************************************************************)
(* a .vtu/.vtm file named opt_X_Y_Z or opt_X_Y_Z_surf *)
NamedOpt(filename) ==
    /\ filename.stem = "opt_"
    /\ IsDigits(filename.x) /\ IsDigits(filename.y) /\ IsDigits(filename.z)
    /\ filename.surf \in {"", "_surf"}
    /\ filename.ext \in {".vtu", ".vtm"}

(* C21: after cleanup_job_folder has returned with no deletion error, every
   remaining file named opt_X_Y_Z[_surf].vtu/.vtm has Y = 10, every such file
   with Y = 10 and every file not so named is still present, no file has
   appeared, and the returned counts are the numbers of so-named files removed
   and retained. *)
C21_KeepsOnlyIterationTen ==
    cleanup.pc = "returned" /\ cleanup.errors = 0 =>
        LET matching == {n \in cleanup.before : NamedOpt(n)}
        IN  /\ cleanup.folder \subseteq cleanup.before
            /\ \A n \in cleanup.folder : NamedOpt(n) => IntOf(n.y) = 10
            /\ \A n \in matching : IntOf(n.y) = 10 => n \in cleanup.folder
            /\ \A n \in cleanup.before \ matching : n \in cleanup.folder
            /\ cleanup.returned =
                  <<Cardinality(matching \ cleanup.folder),
                    Cardinality(matching \cap cleanup.folder)>>

C21_Witness ==
    /\ cleanup.pc = "returned"
    /\ cleanup.errors = 0
    /\ cleanup.returned = <<1, 1>>
    /\ \E n \in cleanup.folder : n.y = <<"0", "1", "0">> /\ NamedOpt(n)

(***************************************************************************)
(* Levels and iterations of extract_optimization_data                      *)
(***************************************************************************)
(* the levels the first n lines create when a BBW line always creates a
   control point level and an L-BFGS line creates a full vertex level only
   when there is no level yet or when the current level is a control point
   level with a saved iteration: their number, the kind of the last one,
   whether an iteration was saved since it began, and the iteration in
   effect: pre_opt from the start of a level, 0 from an L-BFGS line, k + 1
   from a "Saving iteration k" line *)
RECURSIVE LevelsCreated(_, _)
LevelsCreated(lines, n) ==
    IF n = 0
    THEN [count |-> 0, kind |-> "none", saved |-> FALSE,
          iteration |-> Word("pre_opt")]
    ELSE LET before == LevelsCreated(lines, n - 1)
             line == lines[n]
         IN  CASE line.kind = "bbw" ->
                    [count |-> before.count + 1, kind |-> "control_points",
                     saved |-> FALSE, iteration |-> Word("pre_opt")]
               [] line.kind = "lbfgs" ->
                    IF before.kind = "none"
                       \/ (before.kind = "control_points" /\ before.saved)
                    THEN [count |-> before.count + 1, kind |-> "full",
                          saved |-> FALSE, iteration |-> Num(0)]
                    ELSE [before EXCEPT !.iteration = Num(0)]
               [] line.kind = "save" ->
                    [before EXCEPT !.saved = TRUE, !.iteration = Num(line.a + 1)]
               [] OTHER -> before

LinesRead == extract.pc \in {"scanning", "scanned", "done"}

(* C22: after any number of lines read, the number of levels created, the
   number of the current level (the levels count from 0) and its kind are
   those of a scan in which an L-BFGS line creates a full vertex level only
   when no level exists or an iteration of the current control point level
   has been saved. *)
C22_LevelsCreatedAsStated ==
    LinesRead =>
        LET created == LevelsCreated(extract.lines, extract.line_idx)
        IN  /\ extract.level_counter = created.count
            /\ extract.current_level =
                   IF created.count = 0 THEN None ELSE Num(created.count - 1)
            /\ created.kind = "full" <=> extract.current_control_points = Num(-1)
            /\ created.kind = "none" <=> extract.current_control_points = None

(* the lines among the first n that are a first step line 1/N, in order *)
FirstStepLines(lines, n) ==
    SelectSeq([i \in 1..n |-> i], LAMBDA i : lines[i].kind = "step" /\ lines[i].a = 1)

(* the iteration in effect when line i was read *)
IterationAt(lines, i) == LevelsCreated(lines, i - 1).iteration

(* whether the sequence `part` is `whole` with some entries left out *)
RECURSIVE IsSubsequence(_, _)
IsSubsequence(part, whole) ==
    IF part = <<>> THEN TRUE
    ELSE IF whole = <<>> THEN FALSE
    ELSE IF Head(part) = Head(whole) THEN IsSubsequence(Tail(part), Tail(whole))
    ELSE IsSubsequence(part, Tail(whole))

IterationsOf(rows) == [i \in DOMAIN rows |-> rows[i].iteration]

(* C23: the simulation being tracked carries the iteration in effect when its
   first step line was read, and the rows collected and the rows written
   carry, in order, iterations in effect at first step lines of the log:
   pre_opt from the start of a level, 0 from an L-BFGS start, k + 1 from a
   "Saving iteration k" line. *)
C23_RowsCarryIterationInEffect ==
    LinesRead =>
        LET lines == extract.lines
            starts == FirstStepLines(lines, extract.line_idx)
            in_effect == [k \in DOMAIN starts |-> IterationAt(lines, starts[k])]
            rows == extract.simulation_data
                      \o (IF extract.pc = "scanning"
                          THEN extract.simulations_in_current_iteration ELSE <<>>)
        IN  /\ extract.pending_simulation.tag # "None" =>
                  /\ starts # <<>>
                  /\ extract.pending_simulation.iteration = in_effect[Len(starts)]
            /\ IsSubsequence(IterationsOf(rows), in_effect)
            /\ extract.pc = "done" =>
                  IterationsOf(extract.csv.rows) = IterationsOf(extract.simulation_data)

C23_Witness ==
    /\ extract.pc = "done"
    /\ Len(extract.csv.rows) = 2
    /\ extract.csv.rows[1].iteration = Num(0)
    /\ extract.csv.rows[2].iteration = Num(1)

====
